---- MODULE Spec2Model ----
(***************************************************************************)
(* State-machine model of the MathTrainer React component (src/src/App.js).*)
(*                                                                         *)
(* React specifics that the model keeps:                                   *)
(*  - every handler is a closure over the state values of the render that  *)
(*    created it (an "environment", Env).  Handlers reached through the    *)
(*    JSX of the latest render read the current values; the keydown        *)
(*    listener, the interval callback and the setTimeout callbacks keep    *)
(*    the environment of the render that installed them;                   *)
(*  - setX(v) overwrites, setX(f) applies f to the current value;          *)
(*  - a handler, the re-render and the effects it triggers form one step   *)
(*    (events run to completion).                                          *)
(* Wall-clock values (date, durationSec, startTime) are left out of the    *)
(* records; the 500 ms / 1000 ms delays are kept as an ordering constraint *)
(* between the pending timeouts and the interval ticks.                    *)
(***************************************************************************)
EXTENDS Integers, Sequences, FiniteSets, TLC

\* ---- bounds of the model ----
MaxCount == 2          \* numProblems ranges over 0..MaxCount
MaxTime == 2           \* timePerProblem ranges over 0..MaxTime
MaxEvents == 5         \* user events (clicks, keys, edits) in one behaviour
MaxDataEvents == 3     \* the same, in the behaviours with a two-valued operand range
MaxOverrun == 1        \* interval ticks allowed after the countdown has expired
MaxLiveEvents == 3     \* user events in the behaviours with fair timers
MaxHistEvents == 3     \* user events in the behaviours that start from a stored history
MaxGenEvents == 3      \* user events in the behaviours that exercise generation
RandDen == 2           \* Math.random() ranges over {0/RandDen .. (RandDen-1)/RandDen}

\* ---- program constants ----
HistCap == 50          \* slice(0, 50)

VARIABLES
  minOperand, maxOperand, numProblems, timePerProblem, autoNext, shuffle,
  running, problems, index, answer, feedback, score, elapsed, history,
  storage,     \* localStorage["math-trainer-history"]
  timer,       \* the setInterval of the timer effect: <<>> or <<[timeLeft, env]>>
  keyH,        \* environment of the installed keydown listener
  pending,     \* FIFO of the setTimeout(() => next(), 500) callbacks
  due,         \* how many callbacks at the head of pending fire before the next tick
  budget,      \* user events left
  produced     \* the record built by stop in the last step: <<>> or <<record>>

settings == <<minOperand, maxOperand, numProblems, timePerProblem, autoNext, shuffle>>
vars == <<minOperand, maxOperand, numProblems, timePerProblem, autoNext, shuffle,
          running, problems, index, answer, feedback, score, elapsed, history,
          storage, timer, keyH, pending, due, budget, produced>>

\* ---- values ----
None == <<>>
Some(x) == <<x>>

\* the values of the render scope that the handlers read
CurEnv ==
  [running |-> running, problems |-> problems, index |-> index, score |-> score,
   history |-> history, autoNext |-> autoNext, numProblems |-> numProblems]

\* problems[index] (0-based in the source), None when out of range
current(e) ==
  IF e.index + 1 \in DOMAIN e.problems THEN Some(e.problems[e.index + 1]) ELSE None

\* ---- answer parsing: parseInt(String(userAnswer).trim(), 10) ----
DigitChars == <<"0", "1", "2", "3", "4", "5", "6", "7", "8", "9">>
IsDigit(c) == \E d \in DOMAIN DigitChars : DigitChars[d] = c
DigitVal(c) == (CHOOSE d \in DOMAIN DigitChars : DigitChars[d] = c) - 1
IsSpace(c) == c = " "

RECURSIVE trimStart(_)
trimStart(s) == IF s # <<>> /\ IsSpace(Head(s)) THEN trimStart(Tail(s)) ELSE s
RECURSIVE trimEnd(_)
trimEnd(s) ==
  IF s # <<>> /\ IsSpace(s[Len(s)]) THEN trimEnd(SubSeq(s, 1, Len(s) - 1)) ELSE s
trim(s) == trimEnd(trimStart(s))

\* value of the longest prefix of digits of s, starting from acc
RECURSIVE digitsPrefix(_, _)
digitsPrefix(s, acc) ==
  IF s # <<>> /\ IsDigit(Head(s))
    THEN digitsPrefix(Tail(s), 10 * acc + DigitVal(Head(s)))
    ELSE acc

\* parseInt(s, 10): optional sign, then the longest prefix of digits; whatever
\* follows the digits is ignored; None stands for NaN
parseInt(s) ==
  LET t == trimStart(s)
      neg == t # <<>> /\ Head(t) = "-"
      body == IF t # <<>> /\ Head(t) \in {"-", "+"} THEN Tail(t) ELSE t
  IN IF body = <<>> \/ ~IsDigit(Head(body)) THEN None
     ELSE Some(IF neg THEN 0 - digitsPrefix(body, 0) ELSE digitsPrefix(body, 0))

\* ok = !Number.isNaN(parsed) && parsed === correct
isOk(userAnswer, correct) == parseInt(trim(userAnswer)) = Some(correct)

\* ---- problem generation ----
RandomSource == 0 .. RandDen - 1

randIntCeil(a, b, r) == ((r * (b - a + 1) + RandDen - 1) \div RandDen) + a

\* Math.floor(Math.random() * (b - a + 1)) + a, with Math.random() = r / RandDen
randInt(a, b, r) == ((r * (b - a + 1)) \div RandDen) + a

Orders(n) == {p \in [1 .. n -> 1 .. n] : \A i, j \in 1 .. n : p[i] = p[j] => i = j}

\* the arrays makeProblems can return: one draw of the random source per operand,
\* then, when shuffled, the order the comparator sort leaves (any permutation)
makeProblems(n, minV, maxV, shuffled) ==
  LET drawn == {[i \in 1 .. n |-> [a |-> randInt(minV, maxV, ra[i]),
                                   b |-> randInt(minV, maxV, rb[i])]] :
                  ra \in [1 .. n -> RandomSource], rb \in [1 .. n -> RandomSource]}
  IN IF shuffled
       THEN {[i \in 1 .. n |-> arr[p[i]]] : arr \in drawn, p \in Orders(n)}
       ELSE drawn

\* ---- persistence ----
NoData == [kind |-> "none"]
Stored(list) == [kind |-> "list", items |-> list]

\* stored text that JSON.parse rejects
Unparsable == [kind |-> "text"]
\* stored text that JSON.parse accepts and that is not an array
StoredValue(v) == [kind |-> "value", value |-> v]

\* useState initialiser of history: raw ? JSON.parse(raw) : [], [] when parse throws
loadHistory(raw) ==
  CASE raw.kind = "none" -> <<>>
    [] raw.kind = "text" -> <<>>
    [] raw.kind = "list" -> raw.items
    [] raw.kind = "value" -> raw.value

\* a JavaScript array: indices 1 .. length
IsArray(v) == DOMAIN v = 1 .. Cardinality(DOMAIN v)

\* the component renders history.length and history.map(...); on a value without
\* map the render throws and React unmounts the component
Mounted == IsArray(history)

\* ---- stop ----
record(e, reason) ==
  [solved |-> e.score,
   total |-> IF Len(e.problems) # 0 THEN Len(e.problems) ELSE e.numProblems,
   reason |-> reason]

slice(list, n) == SubSeq(list, 1, IF Len(list) < n THEN Len(list) ELSE n)

newHistUncapped(e, reason) == <<record(e, reason)>> \o e.history

newHist(e, reason) == slice(<<record(e, reason)>> \o e.history, HistCap)

\* ghost: the callbacks that were pending when a stop or a start ran
Void(q) == [i \in DOMAIN q |-> [q[i] EXCEPT !.voided = TRUE]]

persistedOld(e, reason) == Stored(e.history)

\* localStorage.setItem("math-trainer-history", JSON.stringify(newHist))
persisted(e, reason) == Stored(newHist(e, reason))

stop(e, reason, q) ==
  /\ running' = FALSE
  /\ history' = newHist(e, reason)
  /\ storage' = persisted(e, reason)
  /\ produced' = Some(record(e, reason))
  /\ pending' = Void(q)

\* ---- next ----
hasNextInclusive(e) == e.index + 1 <= Len(e.problems)

hasNext(e) == e.index + 1 < Len(e.problems)

nextIndexBack(i) == i - 1

\* setIndex((i) => i + 1)
nextIndex(i) == i + 1

nextNoFinish(e, q) ==
  /\ answer' = <<>>
  /\ feedback' = None
  /\ produced' = None
  /\ pending' = q
  /\ index' = IF hasNext(e) THEN nextIndex(index) ELSE index
  /\ UNCHANGED <<running, history, storage>>

next(e, q) ==
  /\ answer' = <<>>
  /\ feedback' = None
  /\ IF hasNext(e)
       THEN /\ index' = nextIndex(index)
            /\ produced' = None
            /\ pending' = q
            /\ UNCHANGED <<running, history, storage>>
       ELSE /\ stop(e, "finished", q)
            /\ index' = index

startKeepingScore(p) ==
  /\ problems' = p
  /\ index' = 0
  /\ score' = score
  /\ feedback' = None
  /\ running' = TRUE
  /\ answer' = <<>>

\* ---- start: p is the array makeProblems returned ----
start(p) ==
  /\ problems' = p
  /\ index' = 0
  /\ score' = 0
  /\ feedback' = None
  /\ running' = TRUE
  /\ answer' = <<>>

\* ---- checkAnswer ----
Timeout(e) == [env |-> e, voided |-> FALSE]

checkAnswer(e, userAnswer, q) ==
  IF ~e.running \/ current(e) = None
    THEN /\ pending' = q
         /\ UNCHANGED <<feedback, score>>
    ELSE LET p == current(e)[1]
             correct == p.a + p.b
             ok == isOk(userAnswer, correct)
         IN /\ feedback' = Some([ok |-> ok, correct |-> Some(correct)])
            /\ score' = IF ok THEN score + 1 ELSE score
            /\ pending' = IF e.autoNext THEN Append(q, Timeout(e)) ELSE q

\* ---- effects run after the render that follows a handler ----
\* newBatch: setProblems stored a new array; timerH, elapsedH, dueH: the values the
\* handler left
RunEffects(newBatch, timerH, elapsedH, dueH) ==
  /\ keyH' = IF newBatch \/ <<running', answer', index'>> # <<running, answer, index>>
               THEN CurEnv'
               ELSE keyH
  /\ IF newBatch \/ <<running', index', timePerProblem', autoNext'>>
                      # <<running, index, timePerProblem, autoNext>>
       THEN IF running' /\ timePerProblem' > 0
              THEN /\ timer' = Some([timeLeft |-> timePerProblem', env |-> CurEnv'])
                   /\ elapsed' = 0
                   /\ due' = Len(pending')
              ELSE /\ timer' = None
                   /\ elapsed' = elapsedH
                   /\ due' = 0
       ELSE /\ timer' = timerH
            /\ elapsed' = elapsedH
            /\ due' = dueH

\* ---- inputs ----
OperandValues == -1 .. 1
CountValues == 0 .. MaxCount
TimeValues == 0 .. MaxTime
\* texts typed into the answer field
AnswerTexts == {<<" ", "2">>, <<"2", "a">>}

\* a history left in storage by earlier sessions
OldRecord == [solved |-> 0, total |-> 1, reason |-> "user"]
OldHistory(n) == [i \in 1 .. n |-> OldRecord]
\* the JSON object {"0": 0}
ObjectValue == [k \in {0} |-> 0]
MalformedStorage == {Unparsable, StoredValue(ObjectValue)}

Scenario(minV, maxV, events, store) ==
  [min |-> minV, max |-> maxV, budget |-> events, store |-> store]

\* what earlier sessions left in storage, the operand range left in the settings
\* panel, and the number of user events explored from there
Scenarios ==
  {Scenario(1, 1, MaxEvents, NoData),
   Scenario(0, 1, MaxDataEvents, NoData),
   Scenario(1, 1, MaxHistEvents, Stored(OldHistory(HistCap - 1)))}

\* ---- initial state: the first render (useState initial values, lines 8-31) ----
InitFrom(scenarios, counts, times) ==
  /\ \E sc \in scenarios :
       /\ minOperand = sc.min
       /\ maxOperand = sc.max
       /\ budget = sc.budget
       /\ storage = sc.store
  /\ numProblems \in counts
  /\ timePerProblem \in times
  /\ autoNext = TRUE
  /\ shuffle = TRUE
  /\ running = FALSE
  /\ problems = <<>>
  /\ index = 0
  /\ answer = <<>>
  /\ feedback = None
  /\ score = 0
  /\ elapsed = 0
  /\ history = loadHistory(storage)
  /\ timer = None
  /\ pending = <<>>
  /\ due = 0
  /\ produced = None
  /\ keyH = CurEnv

Init == InitFrom(Scenarios, {MaxCount}, {0})

\* the first render over storage that other code or the user has damaged
InitLoad ==
  InitFrom(Scenarios \cup {Scenario(1, 1, MaxHistEvents, s) : s \in MalformedStorage},
           {MaxCount}, {0})

\* the settings panel as a user who wants a timed quiz has left it
InitLive ==
  InitFrom({Scenario(1, 1, MaxLiveEvents, NoData)}, CountValues, TimeValues \ {0})

InitGen == InitFrom({Scenario(1, 1, MaxGenEvents, NoData)}, {MaxCount}, {0})

\* ---- user events ----
UserEvent == Mounted /\ budget > 0 /\ budget' = budget - 1

\* button "start" (disabled while running)
Start ==
  /\ ~running
  /\ UserEvent
  /\ \E p \in makeProblems(numProblems, minOperand, maxOperand, shuffle) : start(p)
  /\ pending' = Void(pending)
  /\ produced' = None
  /\ UNCHANGED <<settings, history, storage>>
  /\ RunEffects(TRUE, timer, 0, due)

\* button "stop" (disabled unless running)
ClickStop ==
  /\ running
  /\ UserEvent
  /\ stop(CurEnv, "user", pending)
  /\ UNCHANGED <<settings, problems, index, answer, feedback, score>>
  /\ RunEffects(FALSE, timer, elapsed, due)

\* the answer field and the check button are rendered while a problem is shown
ProblemShown == running /\ current(CurEnv) # None

ChangeAnswer ==
  /\ ProblemShown
  /\ UserEvent
  /\ \E t \in AnswerTexts \ {answer} : answer' = t
  /\ produced' = None
  /\ UNCHANGED <<settings, running, problems, index, feedback, score, history,
                 storage, pending>>
  /\ RunEffects(FALSE, timer, elapsed, due)

ClickCheck ==
  /\ ProblemShown
  /\ UserEvent
  /\ checkAnswer(CurEnv, answer, pending)
  /\ produced' = None
  /\ UNCHANGED <<settings, running, problems, index, answer, history, storage>>
  /\ RunEffects(FALSE, timer, elapsed, due)

\* keydown listener, key Enter
PressEnter ==
  /\ UserEvent
  /\ IF keyH.running
       THEN checkAnswer(keyH, answer, pending)
       ELSE UNCHANGED <<feedback, score, pending>>
  /\ produced' = None
  /\ UNCHANGED <<settings, running, problems, index, answer, history, storage>>
  /\ RunEffects(FALSE, timer, elapsed, due)

\* keydown listener, key ArrowRight
PressArrowRight ==
  /\ UserEvent
  /\ IF keyH.running
       THEN next(keyH, pending)
       ELSE /\ produced' = None
            /\ UNCHANGED <<answer, feedback, index, running, history, storage, pending>>
  /\ UNCHANGED <<settings, problems, score>>
  /\ RunEffects(FALSE, timer, elapsed, due)

ClearHistory ==
  /\ UserEvent
  /\ history' = <<>>
  /\ storage' = NoData
  /\ produced' = None
  /\ UNCHANGED <<settings, running, problems, index, answer, feedback, score, pending>>
  /\ RunEffects(FALSE, timer, elapsed, due)

\* ---- settings panel ----
run == <<running, problems, index, answer, feedback, score, history, storage, pending>>

SetMinOperand ==
  /\ UserEvent
  /\ \E v \in OperandValues \ {minOperand} : minOperand' = v
  /\ produced' = None
  /\ UNCHANGED <<maxOperand, numProblems, timePerProblem, autoNext, shuffle, run>>
  /\ RunEffects(FALSE, timer, elapsed, due)

SetMaxOperand ==
  /\ UserEvent
  /\ \E v \in OperandValues \ {maxOperand} : maxOperand' = v
  /\ produced' = None
  /\ UNCHANGED <<minOperand, numProblems, timePerProblem, autoNext, shuffle, run>>
  /\ RunEffects(FALSE, timer, elapsed, due)

SetNumProblems ==
  /\ UserEvent
  /\ \E v \in CountValues \ {numProblems} : numProblems' = v
  /\ produced' = None
  /\ UNCHANGED <<minOperand, maxOperand, timePerProblem, autoNext, shuffle, run>>
  /\ RunEffects(FALSE, timer, elapsed, due)

SetTimePerProblem ==
  /\ UserEvent
  /\ \E v \in TimeValues \ {timePerProblem} : timePerProblem' = v
  /\ produced' = None
  /\ UNCHANGED <<minOperand, maxOperand, numProblems, autoNext, shuffle, run>>
  /\ RunEffects(FALSE, timer, elapsed, due)

SetAutoNext ==
  /\ UserEvent
  /\ autoNext' = ~autoNext
  /\ produced' = None
  /\ UNCHANGED <<minOperand, maxOperand, numProblems, timePerProblem, shuffle, run>>
  /\ RunEffects(FALSE, timer, elapsed, due)

SetShuffle ==
  /\ UserEvent
  /\ shuffle' = ~shuffle
  /\ produced' = None
  /\ UNCHANGED <<minOperand, maxOperand, numProblems, timePerProblem, autoNext, run>>
  /\ RunEffects(FALSE, timer, elapsed, due)

\* ---- asynchronous callbacks ----
\* the oldest setTimeout(() => next(), 500) fires
FireTimeout ==
  /\ pending # <<>>
  /\ next(Head(pending).env, Tail(pending))
  /\ UNCHANGED <<settings, problems, score, budget>>
  /\ RunEffects(FALSE, timer, elapsed, IF due > 0 THEN due - 1 ELSE 0)

expiredLate(timeLeft) == timeLeft < 0

\* if (timeLeft <= 0)
expired(timeLeft) == timeLeft <= 0

\* feedback synthesised by the interval callback on expiry
expiredFeedback(e) ==
  Some([ok |-> FALSE,
        correct |-> IF current(e) # None
                      THEN Some(current(e)[1].a + current(e)[1].b)
                      ELSE None])

\* one run of the setInterval callback; a tick comes 1000 ms after the previous
\* one (or after the interval was set), so every timeout that was pending then
\* has fired, and those pending now fire before the tick after this one
TimerTick ==
  /\ timer # None
  /\ due = 0
  /\ LET e == timer[1].env
         timeLeft == timer[1].timeLeft - 1
     IN /\ timeLeft >= 0 - MaxOverrun
        /\ IF expired(timeLeft) /\ e.autoNext
             THEN next(e, pending)
             ELSE /\ feedback' = IF expired(timeLeft) THEN expiredFeedback(e) ELSE feedback
                  /\ produced' = None
                  /\ UNCHANGED <<answer, index, running, history, storage, pending>>
        /\ UNCHANGED <<settings, problems, score, budget>>
        /\ RunEffects(FALSE, Some([timeLeft |-> timeLeft, env |-> e]), elapsed + 1,
                      Len(pending'))

\* The operand range and the shuffle flag are read by start alone, through
\* makeProblems; Next keeps them as the scenario set them (SetMinOperand,
\* SetMaxOperand and SetShuffle are not among its disjuncts).
Next ==
  \/ Start
  \/ ClickStop
  \/ ChangeAnswer
  \/ ClickCheck
  \/ PressEnter
  \/ PressArrowRight
  \/ ClearHistory
  \/ SetNumProblems
  \/ SetTimePerProblem
  \/ SetAutoNext
  \/ FireTimeout
  \/ TimerTick

Spec == Init /\ [][Next]_vars

SpecLoad == InitLoad /\ [][Next]_vars

\* the browser delivers every interval tick and every timeout that stays due
SpecLive ==
  /\ InitLive
  /\ [][Next]_vars
  /\ WF_vars(TimerTick)
  /\ WF_vars(FireTimeout)

\* ---- generation: the settings panel edited while idle, then start ----
NextGen ==
  \/ ~running /\ SetMinOperand
  \/ ~running /\ SetMaxOperand
  \/ ~running /\ SetNumProblems
  \/ ~running /\ SetShuffle
  \/ Start

SpecGen == InitGen /\ [][NextGen]_vars

(***************************************************************************)
(* Claims                                                                  *)
(***************************************************************************)
Sum(p) == p.a + p.b
NoRecord == produced' = None
Observable == <<running, index, score, feedback, history, storage>>

\* C1: a delayed advance that a stop or a start has overtaken changes nothing when
\* it fires: index, feedback, running, score and history stay as they are and no
\* record is produced.
C1_VoidedAdvanceIsNoOp ==
  [][(FireTimeout /\ Head(pending).voided)
       => (UNCHANGED <<index, feedback, running, score, history>> /\ NoRecord)]_vars

\* C2: every record has solved equal to the score at the moment it is produced.
C2_SolvedIsScore == produced # None => produced[1].solved = score

\* C3: while not running, an invocation of submitAnswer, advance or stop (from the
\* user, the interval or a delayed advance) changes none of running, index, score,
\* feedback, history and storage, and produces no record.
IdleInvocation ==
  FireTimeout \/ TimerTick \/ PressEnter \/ PressArrowRight \/ ClickCheck \/ ClickStop

C3_IdleIsNoOp ==
  [][(~running /\ IdleInvocation) => (UNCHANGED Observable /\ NoRecord)]_vars

\* C4: after a stop the history has at most HistCap entries with the record of
\* that stop first, and so has the list written to storage.
C4_HistoryCapped ==
  produced # None =>
    /\ Len(history) <= HistCap
    /\ history[1] = produced[1]
    /\ storage.kind = "list"
    /\ Len(storage.items) <= HistCap
    /\ storage.items[1] = produced[1]

\* two stops on top of HistCap - 1 older records: the oldest record was dropped
C4_Witness ==
  /\ produced # None
  /\ Len(history) = HistCap
  /\ history[1].total = MaxCount
  /\ history[2].total = MaxCount
  /\ history[HistCap] = OldRecord

\* C5: the countdown does not expire while a delayed advance scheduled for the
\* problem on display is pending.
LivePending ==
  \E i \in DOMAIN pending :
    /\ ~pending[i].voided
    /\ pending[i].env.index = index
    /\ pending[i].env.problems = problems

C5_NoExpiryWhileAwaitingAdvance ==
  [][(TimerTick /\ timer[1].timeLeft - 1 <= 0) => ~LivePending]_vars

\* C6: the tick that makes the elapsed count reach timePerProblem, on a problem on
\* display: with autoNext the controller advances (next index, or the run ends
\* with a "finished" record on the last problem); without it the feedback is
\* {ok: false, correct: a + b} and the controller stays running on the same index,
\* also through the ticks that follow.
ExpiredShown == Some([ok |-> FALSE, correct |-> Some(Sum(current(CurEnv)[1]))])

C6_TimerExpiry ==
  [][/\ (TimerTick /\ elapsed + 1 = timePerProblem /\ current(CurEnv) # None) =>
          IF autoNext
            THEN IF index + 1 < Len(problems)
                   THEN index' = index + 1 /\ running' /\ NoRecord
                   ELSE /\ ~running'
                        /\ produced' # None
                        /\ produced'[1].reason = "finished"
            ELSE /\ feedback' = ExpiredShown
                 /\ index' = index
                 /\ running'
                 /\ NoRecord
     /\ (TimerTick /\ elapsed >= timePerProblem /\ current(CurEnv) # None) =>
          /\ ~autoNext
          /\ feedback' = ExpiredShown
          /\ index' = index
          /\ running'
          /\ NoRecord]_vars

\* the countdown of MaxTime seconds has just expired with autoNext off
C6_Witness ==
  /\ running
  /\ ~autoNext
  /\ timePerProblem = MaxTime
  /\ elapsed = timePerProblem
  /\ timer # None
  /\ timer[1].timeLeft = 0
  /\ current(CurEnv) # None
  /\ feedback = ExpiredShown

\* C7: an advance requested with ArrowRight on a problem on display moves the
\* index by exactly one and keeps the run going while a problem is left, and on
\* the last problem ends the run with one "finished" record whose total is the
\* batch size.
C7_AdvanceWalksTheBatch ==
  [][(PressArrowRight /\ running /\ current(CurEnv) # None) =>
       IF index + 1 < Len(problems)
         THEN index' = index + 1 /\ running' /\ NoRecord /\ history' = history
         ELSE /\ ~running'
              /\ index' = index
              /\ produced' # None
              /\ produced'[1].reason = "finished"
              /\ produced'[1].total = Len(problems)
              /\ history'[1] = produced'[1]]_vars

\* a run of MaxCount problems ended by the MaxCount-th advance, autoNext off, no timer
C7_Witness ==
  /\ ~running
  /\ ~autoNext
  /\ timePerProblem = 0
  /\ pending = <<>>
  /\ Len(problems) = MaxCount
  /\ index = MaxCount - 1
  /\ produced = Some([solved |-> 0, total |-> MaxCount, reason |-> "finished"])

\* C8: every record has total equal to the size of the batch of the run.
C8_TotalIsBatchSize == produced # None => produced[1].total = Len(problems)

\* C9: a submitted text is judged correct exactly when, surrounding whitespace
\* apart, it is the decimal representation of a + b; the feedback carries a + b
\* and the score grows by one exactly then.
RECURSIVE Decimal(_)
Decimal(n) ==
  IF n < 10 THEN <<DigitChars[n + 1]>>
  ELSE Decimal(n \div 10) \o <<DigitChars[(n % 10) + 1]>>

IsTheSum(text, n) == trim(text) = Decimal(n)

C9_SubmitJudgesDecimalText ==
  [][(ClickCheck \/ (PressEnter /\ keyH.running /\ current(keyH) # None)) =>
       LET sum == Sum(current(CurEnv)[1])
       IN /\ feedback' = Some([ok |-> IsTheSum(answer, sum), correct |-> Some(sum)])
          /\ score' = IF IsTheSum(answer, sum) THEN score + 1 ELSE score]_vars

C11_RunKeepsBatchAndOrder ==
  [][(running /\ running') => (problems' = problems /\ index' >= index)]_vars

\* a delayed advance captured at an earlier index has moved the index of a run
\* that a key press had already advanced
C11_Witness ==
  /\ running
  /\ index = 1
  /\ pending # <<>>
  /\ Head(pending).env.index = 0
  /\ keyH.index = 1

\* C12: loading the history never faults and yields the empty sequence when
\* nothing is stored or the stored text is malformed (unparsable, or parsable
\* but not a list); a later stop leaves a sequence headed by the new record.
C12_LoadNeverFaults ==
  /\ IsArray(history)
  /\ storage \in MalformedStorage \cup {NoData} => history = <<>>
  /\ produced # None => history[1] = produced[1]

InRange(p) ==
  \A i \in 1 .. Len(p) : \A v \in {p[i].a, p[i].b} : minOperand <= v /\ v <= maxOperand

\* C13: for every count n >= 0, every operand range with lower <= upper and
\* every value of the random source, the batch that start has generated has
\* exactly n problems with both operands inside the range, and with shuffling
\* on it is a reordering of an array generated without it.
C13_GenerateCountAndRange ==
  (running /\ minOperand <= maxOperand) =>
    /\ Len(problems) = numProblems
    /\ InRange(problems)
    /\ shuffle =>
         \E arr \in makeProblems(numProblems, minOperand, maxOperand, FALSE) :
           \E o \in Orders(numProblems) :
             problems = [i \in 1 .. numProblems |-> arr[o[i]]]

\* start has generated a full batch over a range that starts below zero, and
\* both ends of the range were drawn
C13_Witness ==
  /\ running
  /\ minOperand < 0 /\ minOperand < maxOperand
  /\ Len(problems) = MaxCount
  /\ problems \in makeProblems(numProblems, minOperand, maxOperand, shuffle)
  /\ problems[1].a = minOperand
  /\ problems[1].b = maxOperand

\* C14: the score never exceeds the number of problems of the batch, and every
\* record has solved <= total: a problem adds at most 1 to the score however
\* often an answer to it is submitted.
C14_ScoreBoundedByBatch ==
  /\ score <= Len(problems)
  /\ produced # None => produced[1].solved <= produced[1].total
  /\ \A i \in 1 .. Len(history) : history[i].solved <= history[i].total

\* C15: while a run over a non-empty batch is in progress the index addresses
\* a problem of the batch, also when two advances were pending for one problem.
C15_IndexInsideBatch ==
  (running /\ problems # <<>>) => (0 <= index /\ index < Len(problems))

\* C16: every stop builds on the history as it is at the moment of the stop:
\* the new history is the new record followed by the first HistCap - 1 entries
\* of the history held in memory just before, so no record is dropped or
\* replaced by a later stop and no clear is undone.
C16_StopBuildsOnCurrentHistory ==
  [][produced' # None => history' = slice(<<produced'[1]>> \o history, HistCap)]_vars

\* C17: after every stop and after every clear the history persisted in storage
\* equals the history held in memory, a clear leaving both empty.
C17_StorageMirrorsHistory == loadHistory(storage) = history

\* a stop has written the capped list, new record first, to memory and storage
C17_Witness ==
  /\ produced # None
  /\ Len(history) = HistCap
  /\ history[1] = produced[1]
  /\ storage = Stored(history)

Finished == ~running /\ produced # None /\ produced[1].reason = "finished"

\* C18: with timePerProblem > 0 and autoNext on, ticks and timeouts delivered
\* and no further user action, every run in progress eventually ends: the
\* controller is idle again and a record with reason "finished" was built, for
\* every batch size (0 included) and whatever was submitted before.
C18_TimedRunEnds ==
  (running /\ timePerProblem > 0 /\ autoNext /\ budget = 0) ~> Finished

\* the timer alone has walked a run to its end after the last user event
C18_Witness ==
  /\ Finished
  /\ budget = 0
  /\ timePerProblem > 0 /\ autoNext
  /\ elapsed > 0
  /\ index = Len(problems) - 1

\* C19: with timePerProblem = T > 0 the elapsed-seconds counter of the current
\* problem stays between 0 and T: it restarts at 0 for every new index and the
\* countdown stops ticking once it has expired.
C19_ElapsedWithinLimit ==
  (running /\ timePerProblem > 0) => (0 <= elapsed /\ elapsed <= timePerProblem)

====
